---- MODULE Spec2Model ----
(***************************************************************************)
(* Model of the lead-lag pair-trading engine: OrderBook (order_book.cpp)   *)
(* and PairStrategy (pair_strategy.cpp).                                   *)
(*                                                                         *)
(* C++ doubles are modelled as exact rationals extended with the IEEE-754  *)
(* special values +inf, -inf and NaN and with the largest finite double,   *)
(* +-DBL_MAX.  The other finite inputs are small integers, on which double *)
(* addition and subtraction are exact; a quotient of two small integers is *)
(* kept as the reduced fraction, which orders and compares exactly as its  *)
(* correctly rounded double does against any other such quotient or        *)
(* decimal literal of the same value.  DBL_MAX absorbs a small addend      *)
(* (round to nearest) and DBL_MAX + DBL_MAX overflows to +inf.  The sign   *)
(* of zero is not tracked (-0.0 == 0.0 in every comparison).               *)
(***************************************************************************)
EXTENDS Integers, Sequences, FiniteSets, Bags, TLC

VARIABLES
    bids, asks,        \* per book: the two vectors of Order
    mtx,               \* per book: the thread owning the mutex, or NoThread
    entry_threshold,   \* PairStrategy::entry_threshold
    pc, frame,         \* per thread: position in its current call, and its locals
    call,              \* the last call completed by the single caller
    added,             \* history per book: add_order calls completed on each side since the
                       \* last clear; whether any quantity ever added was not >= 0, not finite
    issued,            \* history: the add_order calls invoked by threads, and the clears
    lin                \* history: per book, the contents after the calls linearized so far

vars == <<bids, asks, mtx, entry_threshold, pc, frame, call, added, issued, lin>>
concVars == <<mtx, pc, frame, issued, lin>>

(***************************************************************************)
(* double                                                                  *)
(***************************************************************************)
Abs(x) == IF x < 0 THEN -x ELSE x

RECURSIVE GCD(_, _)
GCD(a, b) == IF b = 0 THEN a ELSE GCD(b, a % b)

\* the finite double n/d, reduced, with the sign carried by the numerator
Rat(n, d) ==
    LET g == GCD(Abs(n), Abs(d))
        s == IF d < 0 THEN -1 ELSE 1
    IN  [k |-> "fin", n |-> (s * n) \div g, d |-> Abs(d) \div g]

Fin(n) == [k |-> "fin", n |-> n, d |-> 1]
PosInf == [k |-> "inf", n |-> 1, d |-> 1]
NegInf == [k |-> "inf", n |-> -1, d |-> 1]
NaN == [k |-> "nan", n |-> 0, d |-> 1]
Zero == Fin(0)

\* std::numeric_limits<double>::max()
DblMax == [k |-> "max", n |-> 1, d |-> 1]

\* a finite double that is none of the values above: a quotient of DBL_MAX
\* and a small number
Other == [k |-> "other", n |-> 0, d |-> 1]

Sign(n) == IF n < 0 THEN -1 ELSE IF n > 0 THEN 1 ELSE 0

\* unary minus on double
DNeg(a) == IF a.k \in {"nan", "other"} THEN a ELSE [a EXCEPT !.n = -a.n]

\* a + b on double
DAdd(a, b) ==
    IF a.k = "nan" \/ b.k = "nan" THEN NaN
    ELSE IF a.k = "other" \/ b.k = "other" THEN Other
    ELSE IF a.k = "inf" /\ b.k = "inf" THEN (IF a.n = b.n THEN a ELSE NaN)
    ELSE IF a.k = "inf" THEN a
    ELSE IF b.k = "inf" THEN b
    ELSE IF a.k = "max" /\ b.k = "max"
         THEN (IF a.n = b.n THEN [k |-> "inf", n |-> a.n, d |-> 1] ELSE Zero)
    ELSE IF a.k = "max" THEN a
    ELSE IF b.k = "max" THEN b
    ELSE Rat(a.n * b.d + b.n * a.d, a.d * b.d)

\* a - b on double
DSub(a, b) == DAdd(a, DNeg(b))

\* a / b on double
DDiv(a, b) ==
    IF a.k = "nan" \/ b.k = "nan" THEN NaN
    ELSE IF a.k = "other" \/ b.k = "other" THEN Other
    ELSE IF a.k = "inf" /\ b.k = "inf" THEN NaN
    ELSE IF a.k = "inf" THEN (IF Sign(b.n) < 0 THEN DNeg(a) ELSE a)
    ELSE IF b.k = "inf" THEN Zero
    ELSE IF a.k = "max" /\ b.k = "max" THEN Fin(a.n * b.n)
    ELSE IF a.k = "max"
         THEN (IF b.n = 0 THEN [k |-> "inf", n |-> a.n, d |-> 1]
               ELSE IF b = Fin(1) THEN a
               ELSE IF b = Fin(-1) THEN DNeg(a)
               ELSE Other)
    ELSE IF b.k = "max" THEN (IF a.n = 0 THEN Zero ELSE Other)
    ELSE IF b.n = 0 THEN (IF a.n = 0 THEN NaN
                          ELSE IF a.n > 0 THEN PosInf ELSE NegInf)
    ELSE Rat(a.n * b.d, a.d * b.n)

\* a == b on double (false whenever an operand is NaN)
DEq(a, b) == a.k # "nan" /\ b.k # "nan" /\ a = b

\* -inf < -DBL_MAX < the small finite values < DBL_MAX < +inf
Rank(a) == IF a.k = "inf" THEN 2 * a.n ELSE IF a.k = "max" THEN a.n ELSE 0

\* a < b on double (false whenever an operand is NaN)
DLt(a, b) ==
    IF a.k = "nan" \/ b.k = "nan" THEN FALSE
    ELSE IF Rank(a) # Rank(b) THEN Rank(a) < Rank(b)
    ELSE a.k = "fin" /\ b.k = "fin" /\ a.n * b.d < b.n * a.d

\* a > b on double
DGt(a, b) == DLt(b, a)

\* a <= b on double
DLe(a, b) == DLt(a, b) \/ DEq(a, b)

(***************************************************************************)
(* Inputs and bounds                                                       *)
(***************************************************************************)
MaxOrders == 3
MaxCalls == 2

Books == {"book", "leader", "follower", "leader2", "follower2"}
Threads == {"t1", "t2"}
NoThread == "none"

Prices == {Fin(100)}
Quantities == {Fin(-20), Fin(0), Fin(20), Fin(80), PosInf}
ConcQuantities == {Fin(20), DblMax, DNeg(DblMax)}
Thresholds == {Rat(1, 5), Rat(3, 5), Rat(-3, 5)}
Roles == {0, 1, 2}

(***************************************************************************)
(* Order and the two sequences of an OrderBook                             *)
(***************************************************************************)
Order(p, q) == [price |-> p, quantity |-> q]

\* insertion at the front of the vector
PushFront(v, o) == <<o>> \o v

\* std::vector::push_back
PushBack(v, o) == Append(v, o)

\* the accumulation loop: for (o : v) acc += o->quantity, from acc
RECURSIVE Accumulate(_, _)
Accumulate(acc, v) ==
    IF v = <<>> THEN acc
    ELSE Accumulate(DAdd(acc, Head(v).quantity), Tail(v))

\* get_imbalance() without its test of total_vol
ImbalanceUnguarded(bs, as) ==
    LET total_bid_vol == Accumulate(Zero, bs)
        total_ask_vol == Accumulate(Zero, as)
        total_vol == DAdd(total_bid_vol, total_ask_vol)
    IN  DDiv(DSub(total_bid_vol, total_ask_vol), total_vol)

\* get_imbalance() dividing by the bid volume instead of the total volume
ImbalanceOverBids(bs, as) ==
    LET total_bid_vol == Accumulate(Zero, bs)
        total_ask_vol == Accumulate(Zero, as)
        total_vol == DAdd(total_bid_vol, total_ask_vol)
    IN  IF DEq(total_vol, Zero) THEN Zero
        ELSE DDiv(DSub(total_bid_vol, total_ask_vol), total_bid_vol)

\* the value get_imbalance() computes from the two sequences
Imbalance(bs, as) ==
    LET total_bid_vol == Accumulate(Zero, bs)
        total_ask_vol == Accumulate(Zero, as)
        total_vol == DAdd(total_bid_vol, total_ask_vol)
    IN  IF DEq(total_vol, Zero) THEN Zero
        ELSE DDiv(DSub(total_bid_vol, total_ask_vol), total_vol)

\* check_signals() with the two results exchanged
SignalSwapped(leader_obi, threshold) ==
    IF DGt(leader_obi, threshold) THEN -1
    ELSE IF DLt(leader_obi, DNeg(threshold)) THEN 1
    ELSE 0

\* check_signals() with non-strict comparisons
SignalInclusive(leader_obi, threshold) ==
    IF ~DLt(leader_obi, threshold) THEN 1
    ELSE IF ~DGt(leader_obi, DNeg(threshold)) THEN -1
    ELSE 0

\* the comparison chain of check_signals()
Signal(leader_obi, threshold) ==
    IF DGt(leader_obi, threshold) THEN 1
    ELSE IF DLt(leader_obi, DNeg(threshold)) THEN -1
    ELSE 0

TotalOrders ==
    Len(bids["book"]) + Len(asks["book"]) + Len(bids["leader"])
      + Len(asks["leader"]) + Len(bids["follower"]) + Len(asks["follower"])
      + Len(bids["leader2"]) + Len(asks["leader2"])
      + Len(bids["follower2"]) + Len(asks["follower2"])

\* the history of a book after one more completed add_order
Record(h, quantity, is_bid) ==
    [bid |-> IF is_bid THEN h.bid + 1 ELSE h.bid,
     ask |-> IF is_bid THEN h.ask ELSE h.ask + 1,
     neg |-> h.neg \/ ~DLe(Zero, quantity),
     nonfin |-> h.nonfin \/ quantity.k # "fin"]

\* no value: nothing was returned before
NoValue == [k |-> "none", n |-> 0, d |-> 1]

\* the methods that only report on a book
Observers == {"get_imbalance", "check_signals", "get_leader_imbalance"}

\* the record of a completed call; for an observer that directly follows the
\* same observer of the same book, prev is what that earlier call returned
Call(op, b, val) ==
    [op |-> op, book |-> b, val |-> val,
     prev |-> IF op \in Observers /\ call.op = op /\ call.book = b
              THEN call.val ELSE NoValue]

NoFrame ==
    [outer |-> "none", book |-> "book",
     op |-> "none", order |-> Order(Zero, Zero), is_bid |-> FALSE, sz |-> 0,
     total_bid_vol |-> Zero, total_ask_vol |-> Zero, total_vol |-> Zero,
     val |-> Zero, spec_val |-> Zero, floor |-> 0, ncalls |-> 0]

Init ==
    /\ bids = [b \in Books |-> <<>>]
    /\ asks = [b \in Books |-> <<>>]
    /\ mtx = [b \in Books |-> NoThread]
    /\ entry_threshold \in Thresholds
    /\ pc = [t \in Threads |-> "idle"]
    /\ frame = [t \in Threads |-> NoFrame]
    /\ call = [op |-> "none", book |-> "book", val |-> Zero, prev |-> NoValue]
    /\ added = [b \in Books |-> [bid |-> 0, ask |-> 0, neg |-> FALSE, nonfin |-> FALSE]]
    /\ issued = [bid |-> EmptyBag, ask |-> EmptyBag, clears |-> 0]
    /\ lin = [b \in Books |-> [bids |-> <<>>, asks |-> <<>>]]

(***************************************************************************)
(* OrderBook, one caller at a time: each action is a whole method call     *)
(***************************************************************************)
\* add_order() that drops an order whose price or quantity is not positive
AddOrderBodyChecked(b, price, quantity, is_bid) ==
    /\ TotalOrders < MaxOrders
    /\ IF DLe(price, Zero) \/ DLe(quantity, Zero)
       THEN UNCHANGED <<bids, asks, added>>
       ELSE IF is_bid
       THEN /\ bids' = [bids EXCEPT ![b] = PushBack(@, Order(price, quantity))]
            /\ asks' = asks
            /\ added' = [added EXCEPT ![b] = Record(@, quantity, TRUE)]
       ELSE /\ asks' = [asks EXCEPT ![b] = PushBack(@, Order(price, quantity))]
            /\ bids' = bids
            /\ added' = [added EXCEPT ![b] = Record(@, quantity, FALSE)]

\* the body of OrderBook::add_order on book b
AddOrderBody(b, price, quantity, is_bid) ==
    /\ TotalOrders < MaxOrders
    /\ IF is_bid
       THEN /\ bids' = [bids EXCEPT ![b] = PushBack(@, Order(price, quantity))]
            /\ asks' = asks
            /\ added' = [added EXCEPT ![b] = Record(@, quantity, TRUE)]
       ELSE /\ asks' = [asks EXCEPT ![b] = PushBack(@, Order(price, quantity))]
            /\ bids' = bids
            /\ added' = [added EXCEPT ![b] = Record(@, quantity, FALSE)]

add_order(b, price, quantity, is_bid) ==
    /\ AddOrderBody(b, price, quantity, is_bid)
    /\ call' = Call("add_order", b, Zero)
    /\ UNCHANGED <<entry_threshold, concVars>>

get_imbalance(b) ==
    /\ call' = Call("get_imbalance", b, Imbalance(bids[b], asks[b]))
    /\ UNCHANGED <<bids, asks, entry_threshold, added, concVars>>

\* clear() that forgets asks.clear()
clear_bids_only(b) ==
    /\ bids' = [bids EXCEPT ![b] = <<>>]
    /\ asks' = asks
    /\ added' = [added EXCEPT ![b].bid = 0, ![b].ask = 0]
    /\ call' = Call("clear", b, Zero)
    /\ UNCHANGED <<entry_threshold, concVars>>

clear(b) ==
    /\ bids' = [bids EXCEPT ![b] = <<>>]
    /\ asks' = [asks EXCEPT ![b] = <<>>]
    /\ added' = [added EXCEPT ![b].bid = 0, ![b].ask = 0]
    /\ call' = Call("clear", b, Zero)
    /\ UNCHANGED <<entry_threshold, concVars>>

\* get_bid_count() returning asks.size()
get_bid_count_of_asks(b) ==
    /\ call' = Call("get_bid_count", b, Fin(Len(asks[b])))
    /\ UNCHANGED <<bids, asks, entry_threshold, added, concVars>>

get_bid_count(b) ==
    /\ call' = Call("get_bid_count", b, Fin(Len(bids[b])))
    /\ UNCHANGED <<bids, asks, entry_threshold, added, concVars>>

get_ask_count(b) ==
    /\ call' = Call("get_ask_count", b, Fin(Len(asks[b])))
    /\ UNCHANGED <<bids, asks, entry_threshold, added, concVars>>

(***************************************************************************)
(* PairStrategy, one caller at a time                                      *)
(***************************************************************************)
\* on_market_data() sending every symbol_type other than 0 to the follower
on_market_data_else(symbol_type, price, quantity, is_bid) ==
    /\ IF symbol_type = 0 THEN AddOrderBody("leader", price, quantity, is_bid)
       ELSE AddOrderBody("follower", price, quantity, is_bid)
    /\ call' = Call("on_market_data", "leader", Fin(symbol_type))
    /\ UNCHANGED <<entry_threshold, concVars>>

on_market_data(symbol_type, price, quantity, is_bid) ==
    /\ IF symbol_type = 0 THEN AddOrderBody("leader", price, quantity, is_bid)
       ELSE IF symbol_type = 1 THEN AddOrderBody("follower", price, quantity, is_bid)
       ELSE UNCHANGED <<bids, asks, added>>
    /\ call' = Call("on_market_data", "leader", Fin(symbol_type))
    /\ UNCHANGED <<entry_threshold, concVars>>

\* check_signals() reading the follower book
check_signals_follower ==
    /\ LET leader_obi == Imbalance(bids["follower"], asks["follower"])
       IN  call' = Call("check_signals", "leader",
                        Fin(Signal(leader_obi, entry_threshold)))
    /\ UNCHANGED <<bids, asks, entry_threshold, added, concVars>>

\* check_signals() that reports a signal once and then stays silent until
\* another call intervenes
check_signals_latched ==
    /\ LET leader_obi == Imbalance(bids["leader"], asks["leader"])
       IN  call' = Call("check_signals", "leader",
                        IF call.op = "check_signals" /\ call.val # Fin(0)
                        THEN Fin(0)
                        ELSE Fin(Signal(leader_obi, entry_threshold)))
    /\ UNCHANGED <<bids, asks, entry_threshold, added, concVars>>

check_signals ==
    /\ LET leader_obi == Imbalance(bids["leader"], asks["leader"])
       IN  call' = Call("check_signals", "leader",
                        Fin(Signal(leader_obi, entry_threshold)))
    /\ UNCHANGED <<bids, asks, entry_threshold, added, concVars>>

get_leader_imbalance ==
    /\ call' = Call("get_leader_imbalance", "leader",
                    Imbalance(bids["leader"], asks["leader"]))
    /\ UNCHANGED <<bids, asks, entry_threshold, added, concVars>>

BookNext ==
    \/ \E p \in Prices, q \in Quantities, s \in BOOLEAN : add_order("book", p, q, s)
    \/ get_imbalance("book")
    \/ clear("book")
    \/ get_bid_count("book")
    \/ get_ask_count("book")
    \/ get_leader_imbalance

StrategyNext ==
    \/ \E r \in Roles, p \in Prices, q \in Quantities, s \in BOOLEAN :
          on_market_data(r, p, q, s)
    \/ check_signals
    \/ get_leader_imbalance

\* a directly constructed OrderBook, and the empty leader book of a strategy
SpecBook == Init /\ [][BookNext]_vars

\* a PairStrategy fed through its own interface
SpecStrategy == Init /\ [][StrategyNext]_vars

\* the strategy constructed with the threshold 0.2
InitOneThreshold == Init /\ entry_threshold = Rat(1, 5)

(***************************************************************************)
(* Two PairStrategy instances constructed with the same threshold and fed  *)
(* side by side: the same leader events, and follower or ignored events of *)
(* their own                                                               *)
(***************************************************************************)
\* the books owned by the first and by the second instance
PairA == [leader_book |-> "leader", follower_book |-> "follower"]
PairB == [leader_book |-> "leader2", follower_book |-> "follower2"]
Pairs == {PairA, PairB}

\* the books after instance inst handled on_market_data: st holds bids, asks
\* and the history of every book
Routed(st, inst, symbol_type, price, quantity, is_bid) ==
    LET b == IF symbol_type = 0 THEN inst.leader_book
             ELSE IF symbol_type = 1 THEN inst.follower_book
             ELSE "none"
    IN  IF b = "none" THEN st
        ELSE IF is_bid
        THEN [st EXCEPT !.bids[b] = PushBack(@, Order(price, quantity)),
                        !.added[b] = Record(@, quantity, TRUE)]
        ELSE [st EXCEPT !.asks[b] = PushBack(@, Order(price, quantity)),
                        !.added[b] = Record(@, quantity, FALSE)]

\* what get_leader_imbalance() of instance inst returns
LeaderImbalance(inst) ==
    Imbalance(bids[inst.leader_book], asks[inst.leader_book])

\* check_signals() netting the leader imbalance against the follower's
CheckSignalsNet(inst) ==
    Signal(DSub(LeaderImbalance(inst),
                Imbalance(bids[inst.follower_book], asks[inst.follower_book])),
           entry_threshold)

\* what check_signals() of instance inst returns
CheckSignals(inst) == Signal(LeaderImbalance(inst), entry_threshold)

\* the values a call returned on the first and on the second instance
Both(x, y) == [first |-> x, second |-> y]

\* both instances receive the same leader event
twin_leader_event(price, quantity, is_bid) ==
    /\ TotalOrders + 2 <= MaxOrders
    /\ LET st == [bids |-> bids, asks |-> asks, added |-> added]
           sa == Routed(st, PairA, 0, price, quantity, is_bid)
           sb == Routed(sa, PairB, 0, price, quantity, is_bid)
       IN  bids' = sb.bids /\ asks' = sb.asks /\ added' = sb.added
    /\ call' = Call("on_market_data", "leader", Both(Fin(0), Fin(0)))
    /\ UNCHANGED <<entry_threshold, concVars>>

\* one instance receives an event of its follower or of an unknown symbol
twin_other_event(inst, symbol_type, price, quantity, is_bid) ==
    /\ symbol_type # 0
    /\ TotalOrders < MaxOrders
    /\ LET st == [bids |-> bids, asks |-> asks, added |-> added]
           sa == Routed(st, inst, symbol_type, price, quantity, is_bid)
       IN  bids' = sa.bids /\ asks' = sa.asks /\ added' = sa.added
    /\ call' = Call("on_market_data", inst.follower_book,
                    Both(Fin(symbol_type), Fin(symbol_type)))
    /\ UNCHANGED <<entry_threshold, concVars>>

\* check_signals() is called on both instances
twin_check_signals ==
    /\ call' = Call("check_signals", "leader",
                    Both(Fin(CheckSignals(PairA)), Fin(CheckSignals(PairB))))
    /\ UNCHANGED <<bids, asks, entry_threshold, added, concVars>>

\* get_leader_imbalance() is called on both instances
twin_get_leader_imbalance ==
    /\ call' = Call("get_leader_imbalance", "leader",
                    Both(LeaderImbalance(PairA), LeaderImbalance(PairB)))
    /\ UNCHANGED <<bids, asks, entry_threshold, added, concVars>>

TwinNext ==
    \/ \E p \in Prices, q \in Quantities, s \in BOOLEAN : twin_leader_event(p, q, s)
    \/ \E inst \in Pairs, r \in Roles, p \in Prices, q \in Quantities, s \in BOOLEAN :
          twin_other_event(inst, r, p, q, s)
    \/ twin_check_signals
    \/ twin_get_leader_imbalance

SpecTwin == Init /\ [][TwinNext]_vars

\* prices and quantities of either sign and zero
AnyPrices == {Fin(-1), Fin(0), Fin(100)}
AnyQuantities == {Fin(-20), Fin(0), Fin(20)}

AddNext ==
    \/ \E p \in AnyPrices, q \in AnyQuantities, s \in BOOLEAN :
          add_order("book", p, q, s)
    \/ clear("book")
    \/ get_bid_count("book")
    \/ get_ask_count("book")

\* an OrderBook given orders of any sign
SpecAdd == Init /\ [][AddNext]_vars

\* the quantities of the 80/20, 20/80 and 50/50 books
ScenarioQuantities == {Fin(20), Fin(50), Fin(80)}

ScenarioNext ==
    \/ \E r \in Roles, p \in Prices, q \in ScenarioQuantities, s \in BOOLEAN :
          on_market_data(r, p, q, s)
    \/ check_signals
    \/ get_leader_imbalance

\* a PairStrategy fed positive quantities through its own interface
SpecScenario == Init /\ [][ScenarioNext]_vars

ObserveNext ==
    \/ BookNext
    \/ \E p \in Prices, q \in Quantities, s \in BOOLEAN : on_market_data(0, p, q, s)
    \/ check_signals

\* an OrderBook and the leader of a PairStrategy(0.2), written and observed
SpecObserve == InitOneThreshold /\ [][ObserveNext]_vars

\* a PairStrategy(0.2) fed through its own interface
SpecRouting == InitOneThreshold /\ [][StrategyNext]_vars

(***************************************************************************)
(* OrderBook called from several threads: one action per statement, the    *)
(* lock_guard constructor blocking until the mutex is free and its         *)
(* destructor releasing the mutex at the return                            *)
(***************************************************************************)
Min(x, y) == IF x < y THEN x ELSE y

\* a mutex that never makes a lock_guard wait
MutexNeverHeld(b) == TRUE

\* std::mutex: whether a lock_guard on book b can be constructed now
MutexFree(b) == mtx[b] = NoThread

\* push_back stores the element at the end position it read and sets the size
StoreAt(v, sz, o) == Append(SubSeq(v, 1, Min(sz, Len(v))), o)

Goto(t, label) == pc' = [pc EXCEPT ![t] = label]

FirstLabel(op) ==
    CASE op = "add_order" -> "push_back"
      [] op = "get_imbalance" -> "scan_bids"
      [] op = "clear" -> "clear_bids"
      [] op = "get_bid_count" -> "ret_bid_count"
      [] op = "get_ask_count" -> "ret_ask_count"

\* the frame of thread t after its call returned val: the locals are gone
Returned(t, val, spec_val) ==
    [NoFrame EXCEPT !.op = frame[t].op, !.val = val, !.spec_val = spec_val,
                    !.floor = frame[t].floor, !.ncalls = frame[t].ncalls,
                    !.outer = frame[t].outer, !.book = frame[t].book]

\* thread t calls method op of book b
Invoke(t, b, op, order, is_bid) ==
    /\ pc[t] = "idle"
    /\ frame[t].ncalls < MaxCalls
    /\ frame' = [frame EXCEPT ![t] =
                    [NoFrame EXCEPT !.op = op, !.order = order, !.is_bid = is_bid,
                                    !.book = b,
                                    !.ncalls = frame[t].ncalls + 1,
                                    !.floor = IF op = "get_bid_count" THEN added[b].bid
                                              ELSE IF op = "get_ask_count" THEN added[b].ask
                                              ELSE 0]]
    /\ issued' = IF op = "add_order"
                 THEN IF is_bid
                      THEN [issued EXCEPT !.bid = @ (+) SetToBag({order})]
                      ELSE [issued EXCEPT !.ask = @ (+) SetToBag({order})]
                 ELSE IF op = "clear" THEN [issued EXCEPT !.clears = 1]
                 ELSE issued
    /\ Goto(t, "lock")
    /\ UNCHANGED <<bids, asks, mtx, entry_threshold, call, added, lin>>

\* an unnamed lock_guard temporary: the mutex is taken and given back before
\* the body starts
lock_guard_temporary(t, b) ==
    /\ pc[t] = "lock"
    /\ MutexFree(b)
    /\ mtx' = mtx
    /\ Goto(t, FirstLabel(frame[t].op))
    /\ UNCHANGED <<bids, asks, entry_threshold, frame, call, added, issued, lin>>

\* the reading methods entered without waiting for the mutex
lock_guard_writers_only(t, b) ==
    /\ pc[t] = "lock"
    /\ MutexFree(b) \/ frame[t].op \in {"get_imbalance", "get_bid_count", "get_ask_count"}
    /\ mtx' = [mtx EXCEPT ![b] = t]
    /\ Goto(t, FirstLabel(frame[t].op))
    /\ UNCHANGED <<bids, asks, entry_threshold, frame, call, added, issued, lin>>

\* std::lock_guard<std::mutex> lock(mtx)
lock_guard(t, b) ==
    /\ pc[t] = "lock"
    /\ MutexFree(b)
    /\ mtx' = [mtx EXCEPT ![b] = t]
    /\ Goto(t, FirstLabel(frame[t].op))
    /\ UNCHANGED <<bids, asks, entry_threshold, frame, call, added, issued, lin>>

\* add_order: push_back reads the end of the vector of the chosen side
t_push_back(t, b) ==
    /\ pc[t] = "push_back"
    /\ frame' = [frame EXCEPT ![t].sz =
                    IF frame[t].is_bid THEN Len(bids[b]) ELSE Len(asks[b])]
    /\ Goto(t, "push_back_store")
    /\ UNCHANGED <<bids, asks, mtx, entry_threshold, call, added, issued, lin>>

\* add_order: push_back stores the order there
t_push_back_store(t, b) ==
    /\ pc[t] = "push_back_store"
    /\ IF frame[t].is_bid
       THEN /\ bids' = [bids EXCEPT ![b] = StoreAt(@, frame[t].sz, frame[t].order)]
            /\ asks' = asks
       ELSE /\ asks' = [asks EXCEPT ![b] = StoreAt(@, frame[t].sz, frame[t].order)]
            /\ bids' = bids
    /\ Goto(t, "ret_add_order")
    /\ UNCHANGED <<mtx, entry_threshold, frame, call, added, issued, lin>>

\* add_order returns
t_add_order_return(t, b) ==
    /\ pc[t] = "ret_add_order"
    /\ mtx' = [mtx EXCEPT ![b] = NoThread]
    /\ added' = [added EXCEPT ![b] = Record(@, frame[t].order.quantity, frame[t].is_bid)]
    /\ lin' = IF frame[t].is_bid
              THEN [lin EXCEPT ![b].bids = Append(@, frame[t].order)]
              ELSE [lin EXCEPT ![b].asks = Append(@, frame[t].order)]
    /\ frame' = [frame EXCEPT ![t] = Returned(t, Zero, Zero)]
    /\ Goto(t, "idle")
    /\ UNCHANGED <<bids, asks, entry_threshold, call, issued>>

\* get_imbalance giving the mutex back after its first loop
t_scan_bids_unlock(t, b) ==
    /\ pc[t] = "scan_bids"
    /\ frame' = [frame EXCEPT ![t].total_bid_vol = Accumulate(Zero, bids[b])]
    /\ mtx' = [mtx EXCEPT ![b] = NoThread]
    /\ Goto(t, "scan_asks")
    /\ UNCHANGED <<bids, asks, entry_threshold, call, added, issued, lin>>

\* get_imbalance: for (bid : bids) total_bid_vol += bid->quantity
t_scan_bids(t, b) ==
    /\ pc[t] = "scan_bids"
    /\ frame' = [frame EXCEPT ![t].total_bid_vol = Accumulate(Zero, bids[b])]
    /\ Goto(t, "scan_asks")
    /\ UNCHANGED <<bids, asks, mtx, entry_threshold, call, added, issued, lin>>

\* get_imbalance: for (ask : asks) total_ask_vol += ask->quantity
t_scan_asks(t, b) ==
    /\ pc[t] = "scan_asks"
    /\ frame' = [frame EXCEPT ![t].total_ask_vol = Accumulate(Zero, asks[b])]
    /\ Goto(t, "total_vol")
    /\ UNCHANGED <<bids, asks, mtx, entry_threshold, call, added, issued, lin>>

\* get_imbalance: total_vol = total_bid_vol + total_ask_vol
t_total_vol(t, b) ==
    /\ pc[t] = "total_vol"
    /\ frame' = [frame EXCEPT ![t].total_vol =
                    DAdd(frame[t].total_bid_vol, frame[t].total_ask_vol)]
    /\ Goto(t, "ret_get_imbalance")
    /\ UNCHANGED <<bids, asks, mtx, entry_threshold, call, added, issued, lin>>

\* get_imbalance unlocking by hand before its last return only: the early
\* return of an empty total keeps the mutex
t_get_imbalance_return_leak(t, b) ==
    /\ pc[t] = "ret_get_imbalance"
    /\ frame' = [frame EXCEPT ![t] =
                    Returned(t, IF DEq(frame[t].total_vol, Zero) THEN Zero
                                ELSE DDiv(DSub(frame[t].total_bid_vol,
                                               frame[t].total_ask_vol),
                                          frame[t].total_vol),
                             Imbalance(lin[b].bids, lin[b].asks))]
    /\ mtx' = IF DEq(frame[t].total_vol, Zero) THEN mtx
              ELSE [mtx EXCEPT ![b] = NoThread]
    /\ Goto(t, IF frame[t].outer = "check_signals" THEN "compare" ELSE "idle")
    /\ UNCHANGED <<bids, asks, entry_threshold, call, added, issued, lin>>

\* get_imbalance returns through one of its two return statements
t_get_imbalance_return(t, b) ==
    /\ pc[t] = "ret_get_imbalance"
    /\ frame' = [frame EXCEPT ![t] =
                    Returned(t, IF DEq(frame[t].total_vol, Zero) THEN Zero
                                ELSE DDiv(DSub(frame[t].total_bid_vol,
                                               frame[t].total_ask_vol),
                                          frame[t].total_vol),
                             Imbalance(lin[b].bids, lin[b].asks))]
    /\ mtx' = [mtx EXCEPT ![b] = NoThread]
    /\ Goto(t, IF frame[t].outer = "check_signals" THEN "compare" ELSE "idle")
    /\ UNCHANGED <<bids, asks, entry_threshold, call, added, issued, lin>>

\* clear() holding the mutex around bids.clear() only
t_clear_bids_unlock(t, b) ==
    /\ pc[t] = "clear_bids"
    /\ bids' = [bids EXCEPT ![b] = <<>>]
    /\ mtx' = [mtx EXCEPT ![b] = NoThread]
    /\ Goto(t, "clear_asks")
    /\ UNCHANGED <<asks, entry_threshold, frame, call, added, issued, lin>>

\* clear: bids.clear()
t_clear_bids(t, b) ==
    /\ pc[t] = "clear_bids"
    /\ bids' = [bids EXCEPT ![b] = <<>>]
    /\ Goto(t, "clear_asks")
    /\ UNCHANGED <<asks, mtx, entry_threshold, frame, call, added, issued, lin>>

\* clear: asks.clear()
t_clear_asks(t, b) ==
    /\ pc[t] = "clear_asks"
    /\ asks' = [asks EXCEPT ![b] = <<>>]
    /\ Goto(t, "ret_clear")
    /\ UNCHANGED <<bids, mtx, entry_threshold, frame, call, added, issued, lin>>

\* clear returns
t_clear_return(t, b) ==
    /\ pc[t] = "ret_clear"
    /\ mtx' = [mtx EXCEPT ![b] = NoThread]
    /\ added' = [added EXCEPT ![b].bid = 0, ![b].ask = 0]
    /\ lin' = [lin EXCEPT ![b] = [bids |-> <<>>, asks |-> <<>>]]
    /\ frame' = [u \in Threads |->
                    IF u = t THEN [Returned(t, Zero, Zero) EXCEPT !.floor = 0]
                    ELSE [frame[u] EXCEPT !.floor = 0]]
    /\ Goto(t, "idle")
    /\ UNCHANGED <<bids, asks, entry_threshold, call, issued>>

\* get_bid_count: return bids.size()
t_get_bid_count_return(t, b) ==
    /\ pc[t] = "ret_bid_count"
    /\ frame' = [frame EXCEPT ![t] =
                    Returned(t, Fin(Len(bids[b])), Fin(Len(lin[b].bids)))]
    /\ mtx' = [mtx EXCEPT ![b] = NoThread]
    /\ Goto(t, "idle")
    /\ UNCHANGED <<bids, asks, entry_threshold, call, added, issued, lin>>

\* get_ask_count: return asks.size()
t_get_ask_count_return(t, b) ==
    /\ pc[t] = "ret_ask_count"
    /\ frame' = [frame EXCEPT ![t] =
                    Returned(t, Fin(Len(asks[b])), Fin(Len(lin[b].asks)))]
    /\ mtx' = [mtx EXCEPT ![b] = NoThread]
    /\ Goto(t, "idle")
    /\ UNCHANGED <<bids, asks, entry_threshold, call, added, issued, lin>>

ConcNext ==
    \E t \in Threads :
       \/ \E p \in Prices, q \in ConcQuantities, s \in BOOLEAN :
             Invoke(t, "book", "add_order", Order(p, q), s)
       \/ \E op \in {"get_imbalance", "clear", "get_bid_count", "get_ask_count"} :
             Invoke(t, "book", op, Order(Zero, Zero), FALSE)
       \/ lock_guard(t, "book")
       \/ t_push_back(t, "book")
       \/ t_push_back_store(t, "book")
       \/ t_add_order_return(t, "book")
       \/ t_scan_bids(t, "book")
       \/ t_scan_asks(t, "book")
       \/ t_total_vol(t, "book")
       \/ t_get_imbalance_return(t, "book")
       \/ t_clear_bids(t, "book")
       \/ t_clear_asks(t, "book")
       \/ t_clear_return(t, "book")
       \/ t_get_bid_count_return(t, "book")
       \/ t_get_ask_count_return(t, "book")

\* one OrderBook shared by the threads
SpecConc == InitOneThreshold /\ [][ConcNext]_vars

(***************************************************************************)
(* PairStrategy called from several threads: each method runs the          *)
(* OrderBook method it forwards to on the leader or the follower book      *)
(***************************************************************************)
PairQuantities == {Fin(20)}

\* thread t calls on_market_data: the call forwards to add_order of the book
\* of symbol_type, or returns at once for any other symbol_type
p_on_market_data(t, symbol_type, price, quantity, is_bid) ==
    /\ pc[t] = "idle"
    /\ frame[t].ncalls < MaxCalls
    /\ frame' = [frame EXCEPT ![t] =
                    [NoFrame EXCEPT !.outer = "on_market_data",
                                    !.ncalls = frame[t].ncalls + 1,
                                    !.op = IF symbol_type \in {0, 1} THEN "add_order"
                                           ELSE "none",
                                    !.book = IF symbol_type = 0 THEN "leader"
                                             ELSE IF symbol_type = 1 THEN "follower"
                                             ELSE "none",
                                    !.order = Order(price, quantity),
                                    !.is_bid = is_bid]]
    /\ Goto(t, IF symbol_type \in {0, 1} THEN "lock" ELSE "idle")
    /\ UNCHANGED <<bids, asks, mtx, entry_threshold, call, added, issued, lin>>

\* thread t calls check_signals or get_leader_imbalance: both start with
\* leader_book->get_imbalance()
p_read_leader(t, outer) ==
    /\ pc[t] = "idle"
    /\ frame[t].ncalls < MaxCalls
    /\ frame' = [frame EXCEPT ![t] =
                    [NoFrame EXCEPT !.outer = outer, !.op = "get_imbalance",
                                    !.book = "leader",
                                    !.ncalls = frame[t].ncalls + 1]]
    /\ Goto(t, "lock")
    /\ UNCHANGED <<bids, asks, mtx, entry_threshold, call, added, issued, lin>>

\* check_signals: the comparisons of leader_obi with the threshold, and return
p_compare(t) ==
    /\ pc[t] = "compare"
    /\ frame' = [frame EXCEPT ![t] =
                    Returned(t, Fin(Signal(frame[t].val, entry_threshold)),
                                Fin(Signal(frame[t].spec_val, entry_threshold)))]
    /\ Goto(t, "idle")
    /\ UNCHANGED <<bids, asks, mtx, entry_threshold, call, added, issued, lin>>

\* one step of an OrderBook method that thread t runs on book b
BookStep(t, b) ==
    \/ lock_guard(t, b)
    \/ t_push_back(t, b)
    \/ t_push_back_store(t, b)
    \/ t_add_order_return(t, b)
    \/ t_scan_bids(t, b)
    \/ t_scan_asks(t, b)
    \/ t_total_vol(t, b)
    \/ t_get_imbalance_return(t, b)

PairStep(t) ==
    \/ \E b \in {"leader", "follower"} : frame[t].book = b /\ BookStep(t, b)
    \/ p_compare(t)

PairNext ==
    \E t \in Threads :
       \/ \E r \in Roles, p \in Prices, q \in PairQuantities, s \in BOOLEAN :
             p_on_market_data(t, r, p, q, s)
       \/ \E outer \in {"check_signals", "get_leader_imbalance"} :
             p_read_leader(t, outer)
       \/ PairStep(t)

\* one PairStrategy(0.2) shared by the threads
SpecPair == InitOneThreshold /\ [][PairNext]_vars

\* one step of thread t inside whatever method it is running
FairStep(t) ==
    \/ PairStep(t)
    \/ /\ frame[t].book = "book"
       /\ \/ lock_guard(t, "book")
          \/ t_clear_bids(t, "book")
          \/ t_clear_asks(t, "book")
          \/ t_clear_return(t, "book")
          \/ t_get_bid_count_return(t, "book")
          \/ t_get_ask_count_return(t, "book")

\* the calls made so far by all threads
CallsMade == frame["t1"].ncalls + frame["t2"].ncalls

FairNext ==
    \E t \in Threads :
       \/ /\ CallsMade < MaxCalls
          /\ \/ \E r \in Roles, p \in Prices, q \in PairQuantities :
                   p_on_market_data(t, r, p, q, TRUE)
             \/ \E outer \in {"check_signals", "get_leader_imbalance"} :
                   p_read_leader(t, outer)
             \/ \E op \in {"clear", "get_bid_count", "get_ask_count"} :
                   Invoke(t, "book", op, Order(Zero, Zero), FALSE)
       \/ FairStep(t)

\* a PairStrategy and an OrderBook shared by threads that the scheduler lets
\* run whenever they can take a step; callers need not call
SpecFair ==
    /\ InitOneThreshold
    /\ [][FairNext]_vars
    /\ \A t \in Threads : WF_vars(FairStep(t))

(***************************************************************************)
(* Properties                                                              *)
(***************************************************************************)
\* the exact sum of the first i quantities of v, all finite integers
RECURSIVE SumTo(_, _)
SumTo(v, i) == IF i = 0 THEN 0 ELSE SumTo(v, i - 1) + v[i].quantity.n

Volume(v) == SumTo(v, Len(v))
AllFinite(v) == \A i \in 1..Len(v) : v[i].quantity.k = "fin"
Empty(b) == bids[b] = <<>> /\ asks[b] = <<>>

\* (B - A) / (B + A) over the orders of the two sequences, 0.0 when B + A = 0;
\* an infinite volume makes the quotient inf/inf, which is NaN
Ratio(bs, as) ==
    IF AllFinite(bs) /\ AllFinite(as)
    THEN IF Volume(bs) + Volume(as) = 0 THEN Zero
         ELSE Rat(Volume(bs) - Volume(as), Volume(bs) + Volume(as))
    ELSE NaN

InUnitRange(x) == DLe(Fin(-1), x) /\ DLe(x, Fin(1))

\* C1: get_imbalance() returns 0.0 when the bid volume plus the ask volume of
\* the orders in the book is zero, also for a non-empty book whose quantities
\* cancel, and otherwise returns (bid volume - ask volume) / (their sum) over
\* exactly those orders; the quotient is never one by zero.
C1_ImbalanceValue ==
    call.op = "get_imbalance" =>
        LET bs == bids[call.book]
            as == asks[call.book]
        IN  IF AllFinite(bs) /\ AllFinite(as)
            THEN /\ call.val.k = "fin"
                 /\ IF Volume(bs) + Volume(as) = 0
                    THEN call.val = Zero
                    ELSE call.val.n * (Volume(bs) + Volume(as))
                           = call.val.d * (Volume(bs) - Volume(as))
            ELSE call.val = NaN

C1_Witness ==
    /\ call.op = "get_imbalance"
    /\ AllFinite(bids[call.book]) /\ AllFinite(asks[call.book])
    /\ Volume(bids[call.book]) > 0
    /\ Volume(bids[call.book]) + Volume(asks[call.book]) = 0
    /\ call.val = Zero

\* C2 as stated: after add_order and clear calls whose quantities were all
\* non-negative, get_imbalance() returns a value in [-1, 1].
C2_Original ==
    (call.op = "get_imbalance" /\ ~added[call.book].neg) => InUnitRange(call.val)

\* C2 amended: after add_order and clear calls whose quantities were all
\* finite and non-negative, get_imbalance() returns a value in [-1, 1].
C2_FiniteRange ==
    (call.op = "get_imbalance" /\ ~added[call.book].neg /\ ~added[call.book].nonfin)
        => InUnitRange(call.val)

C2_Witness ==
    /\ call.op = "get_imbalance"
    /\ ~added[call.book].neg /\ ~added[call.book].nonfin
    /\ Len(bids[call.book]) > 0 /\ Len(asks[call.book]) > 0
    /\ call.val = Rat(3, 5)

\* C3: get_imbalance() returns exactly 0.0 on a book with no orders, which is
\* the state of a book never added to and the state clear() leaves whatever
\* was added before; get_leader_imbalance() returns 0.0 on a leader book in
\* that state.
C3_EmptyIsZero ==
    /\ call.op = "clear" => Empty(call.book)
    /\ (call.op = "get_imbalance" /\ Empty(call.book)) => call.val = Zero
    /\ (call.op = "get_leader_imbalance" /\ Empty("leader")) => call.val = Zero

C3_Witness ==
    /\ call.op = "get_imbalance"
    /\ Empty(call.book)
    /\ added[call.book].nonfin
    /\ call.val = Zero

\* C4: get_bid_count() is the number of add_order calls with is_bid = true
\* completed since the most recent clear() (or construction), and
\* get_ask_count() the number of those with is_bid = false.
C4_Counts ==
    /\ call.op = "get_bid_count" => call.val = Fin(added[call.book].bid)
    /\ call.op = "get_ask_count" => call.val = Fin(added[call.book].ask)

C4_Witness ==
    /\ call.op = "get_bid_count"
    /\ call.val = Fin(1)
    /\ Len(asks[call.book]) = 1
    /\ added[call.book].neg
    /\ Volume(bids[call.book]) > 0 /\ Volume(asks[call.book]) > 0

\* C5: check_signals() returns Buy (+1) if the leader imbalance is strictly
\* greater than entry_threshold, else Sell (-1) if it is strictly less than
\* -entry_threshold, else None (0); never any other value.
C5_SignalValue ==
    call.op = "check_signals" =>
        LET obi == Ratio(bids["leader"], asks["leader"])
        IN  /\ call.val \in {Fin(1), Fin(-1), Fin(0)}
            /\ DGt(obi, entry_threshold) => call.val = Fin(1)
            /\ (~DGt(obi, entry_threshold) /\ DLt(obi, DNeg(entry_threshold)))
                  => call.val = Fin(-1)
            /\ (~DGt(obi, entry_threshold) /\ ~DLt(obi, DNeg(entry_threshold)))
                  => call.val = Fin(0)

C5_Witness ==
    /\ call.op = "check_signals"
    /\ call.val = Fin(-1)
    /\ Ratio(bids["leader"], asks["leader"]) = Rat(-3, 5)
    /\ entry_threshold = Rat(1, 5)

\* C6 as stated: whenever the leader imbalance is exactly entry_threshold or
\* exactly -entry_threshold, check_signals() returns None; above the threshold
\* it returns Buy and below the negated threshold Sell.
C6_Original ==
    call.op = "check_signals" =>
        LET obi == Ratio(bids["leader"], asks["leader"])
        IN  /\ (DEq(obi, entry_threshold) \/ DEq(obi, DNeg(entry_threshold)))
                  => call.val = Fin(0)
            /\ DGt(obi, entry_threshold) => call.val = Fin(1)
            /\ DLt(obi, DNeg(entry_threshold)) => call.val = Fin(-1)

\* C6 amended: for a threshold T >= 0, a leader imbalance of exactly T or
\* exactly -T yields None, one above T yields Buy and one below -T yields Sell.
C6_Boundary ==
    DLe(Zero, entry_threshold) => C6_Original

C6_Witness ==
    /\ call.op = "check_signals"
    /\ entry_threshold = Rat(3, 5)
    /\ Ratio(bids["leader"], asks["leader"]) = Rat(3, 5)
    /\ call.val = Fin(0)

\* book b gets exactly Order(p, q) appended to the side s; its other side stays
Appended(b, p, q, s) ==
    IF s THEN bids'[b] = Append(bids[b], Order(p, q)) /\ asks'[b] = asks[b]
    ELSE asks'[b] = Append(asks[b], Order(p, q)) /\ bids'[b] = bids[b]

Same(b) == bids'[b] = bids[b] /\ asks'[b] = asks[b]

\* C7: on_market_data with role 0 appends exactly the order (price, quantity)
\* to the given side of the leader book and leaves the follower book alone;
\* with role 1 it does so to the follower book and leaves the leader book
\* alone; with any other role neither book changes.
C7_Routing ==
    [][call'.op = "on_market_data" =>
          \A r \in Roles, p \in Prices, q \in Quantities, s \in BOOLEAN :
             (call'.val = Fin(r) /\ on_market_data(r, p, q, s)) =>
                /\ r = 0 => Appended("leader", p, q, s) /\ Same("follower")
                /\ r = 1 => Appended("follower", p, q, s) /\ Same("leader")
                /\ r \notin {0, 1} => Same("leader") /\ Same("follower")]_vars

C7_Witness ==
    /\ call.op = "on_market_data"
    /\ call.val = Fin(2)
    /\ Len(bids["leader"]) = 1 /\ Len(asks["follower"]) = 1
    /\ Len(asks["leader"]) = 0 /\ Len(bids["follower"]) = 0

RECURSIVE BagOfSeq(_)
BagOfSeq(v) ==
    IF v = <<>> THEN EmptyBag ELSE SetToBag({Head(v)}) (+) BagOfSeq(Tail(v))

\* one sequential execution of the add_order calls of bag B: the orders of S
\* in some fixed order, each as often as B holds it
RECURSIVE SomeOrderOver(_, _)
SomeOrderOver(B, S) ==
    IF S = {} THEN <<>>
    ELSE LET o == CHOOSE x \in S : TRUE
         IN  [i \in 1..B[o] |-> o] \o SomeOrderOver(B, S \ {o})

SomeOrder(B) == SomeOrderOver(B, BagToSet(B))

Quiescent == \A t \in Threads : pc[t] = "idle"
Readers == {"get_imbalance", "get_bid_count", "get_ask_count"}
ReaderBody == {"scan_bids", "scan_asks", "total_vol", "ret_get_imbalance",
               "ret_bid_count", "ret_ask_count"}

\* C8 as stated: once the threads have completed their add_order calls (and
\* no clear was called), the book holds the same bid and ask counts, bid and
\* ask volumes and imbalance as any sequential execution of the same calls.
C8_Original ==
    (Quiescent /\ issued.clears = 0) =>
        LET bs == SomeOrder(issued.bid)
            as == SomeOrder(issued.ask)
        IN  /\ Len(bids["book"]) = Len(bs)
            /\ Len(asks["book"]) = Len(as)
            /\ Accumulate(Zero, bids["book"]) = Accumulate(Zero, bs)
            /\ Accumulate(Zero, asks["book"]) = Accumulate(Zero, as)
            /\ Imbalance(bids["book"], asks["book"]) = Imbalance(bs, as)

\* C8 amended: once the threads have completed their add_order calls (and no
\* clear was called), the book holds exactly the orders issued, each as often
\* as issued (no add lost or duplicated), hence the counts of any sequential
\* execution, and its sequences, volumes and imbalance are those of the
\* sequential execution of the calls in the order in which they returned.
C8_NoLostAdd ==
    (Quiescent /\ issued.clears = 0) =>
        /\ BagOfSeq(bids["book"]) = issued.bid
        /\ BagOfSeq(asks["book"]) = issued.ask
        /\ Len(bids["book"]) = BagCardinality(issued.bid)
        /\ Len(asks["book"]) = BagCardinality(issued.ask)
        /\ Accumulate(Zero, bids["book"]) = Accumulate(Zero, lin["book"].bids)
        /\ Accumulate(Zero, asks["book"]) = Accumulate(Zero, lin["book"].asks)
        /\ Imbalance(bids["book"], asks["book"])
             = Imbalance(lin["book"].bids, lin["book"].asks)

\* no quotient of DBL_MAX and a small number arises in get_imbalance
NoOtherDouble ==
    /\ call.val.k # "other"
    /\ \A t \in Threads :
          /\ frame[t].val.k # "other"
          /\ frame[t].total_vol.k # "other"

C8_Witness ==
    /\ Quiescent /\ issued.clears = 0
    /\ \A t \in Threads : frame[t].ncalls = MaxCalls /\ frame[t].op = "add_order"
    /\ BagCardinality(issued.bid) + BagCardinality(issued.ask)
          = Cardinality(Threads) * MaxCalls
    /\ Len(bids["book"]) + Len(asks["book"]) = Cardinality(Threads) * MaxCalls

\* C9: while a clear() has emptied bids but not yet asks, no other thread is
\* inside get_imbalance, get_bid_count or get_ask_count, and the two volumes
\* a get_imbalance call has read are those of one committed state of the book
\* (the contents before a clear or the emptied book), never a mix.
C9_ClearAtomic ==
    /\ \A u \in Threads, t \in Threads :
          (pc[u] = "clear_asks" /\ t # u) => pc[t] \notin ReaderBody
    /\ \A t \in Threads :
          pc[t] \in {"total_vol", "ret_get_imbalance"} =>
             /\ frame[t].total_bid_vol = Accumulate(Zero, lin["book"].bids)
             /\ frame[t].total_ask_vol = Accumulate(Zero, lin["book"].asks)

C9_Witness ==
    \E u \in Threads, t \in Threads :
       /\ pc[u] = "clear_asks"
       /\ bids["book"] = <<>> /\ asks["book"] # <<>> /\ lin["book"].bids # <<>>
       /\ pc[t] = "lock" /\ frame[t].op = "get_imbalance"

\* C10: the calls take effect one at a time in an order consistent with real
\* time: whenever the mutex is free the book holds exactly the completed
\* mutations in that order, every completed read returned the value of that
\* sequential book at an instant within the call, and a count read started
\* after add_order calls returned is at least their number unless a clear()
\* completed since.
C10_Linearizable ==
    /\ MutexFree("book") =>
          bids["book"] = lin["book"].bids /\ asks["book"] = lin["book"].asks
    /\ \A t \in Threads :
          (pc[t] = "idle" /\ frame[t].op \in Readers) =>
             frame[t].val = frame[t].spec_val
    /\ \A t \in Threads :
          (pc[t] = "idle" /\ frame[t].op \in {"get_bid_count", "get_ask_count"}) =>
             frame[t].val.n >= frame[t].floor

C10_Witness ==
    \E t \in Threads :
       /\ pc[t] = "idle" /\ frame[t].op = "get_bid_count"
       /\ frame[t].floor = 1
       /\ frame[t].val = Fin(2)

(***************************************************************************)
(* C11: under fair scheduling every invoked OrderBook or PairStrategy      *)
(* operation returns: a thread that is in no method holds no mutex (the    *)
(* lock is released on every exit path, the early return of get_imbalance  *)
(* included), no thread holds the mutexes of two books at once, whenever   *)
(* some call is in progress some thread can take a step, and every call in *)
(* progress eventually returns                                             *)
(***************************************************************************)
Held(t) == {b \in Books : mtx[b] = t}

C11_Returns ==
    /\ [](\A t \in Threads : pc[t] \in {"idle", "lock", "compare"} => Held(t) = {})
    /\ [](\A t \in Threads : Cardinality(Held(t)) <= 1)
    /\ []((\E t \in Threads : pc[t] # "idle")
            => \E t \in Threads : ENABLED FairStep(t))
    /\ \A t \in Threads : (pc[t] # "idle") ~> (pc[t] = "idle")

\* a get_imbalance left through its early return, and the other thread has
\* since taken the mutex of the same book
C11_Witness ==
    \E t \in Threads, u \in Threads :
       /\ t # u
       /\ pc[t] = "idle"
       /\ frame[t].op = "get_imbalance"
       /\ frame[t].val = Zero
       /\ frame[t].ncalls = 1
       /\ mtx[frame[t].book] = u
       /\ pc[u] \notin {"idle", "lock"}

(***************************************************************************)
(* C12: get_imbalance and check_signals are idempotent and read-only: a    *)
(* call that directly follows the same call on the same book returns what  *)
(* that call returned, and neither changes bids, asks or the threshold     *)
(***************************************************************************)
C12_Idempotent ==
    /\ []((call.op \in Observers /\ call.prev # NoValue) => call.val = call.prev)
    /\ [][call'.op \in Observers
            => /\ bids' = bids
               /\ asks' = asks
               /\ entry_threshold' = entry_threshold]_vars

\* the second of two get_imbalance calls on a book holding bids and asks
C12_Witness ==
    /\ call.op = "get_imbalance"
    /\ call.prev = Rat(3, 5)
    /\ call.val = Rat(3, 5)
    /\ Len(bids[call.book]) > 0 /\ Len(asks[call.book]) > 0

(***************************************************************************)
(* C13: with threshold 0.2 check_signals returns Buy (1) when the leader   *)
(* has received bid quantity 80 and ask quantity 20, where the imbalance   *)
(* is 0.6, and Sell (-1) when it has received bid 20 and ask 80, where the *)
(* imbalance is -0.6; with any positive threshold it returns None (0) when *)
(* the leader has received bid 50 and ask 50, where the imbalance is 0;    *)
(* whatever the follower has received                                      *)
(***************************************************************************)
Received(bid, ask) ==
    /\ Volume(bids["leader"]) = bid
    /\ Volume(asks["leader"]) = ask

C13_Scenarios ==
    /\ call.op = "check_signals" =>
          /\ (entry_threshold = Rat(1, 5) /\ Received(80, 20)) => call.val = Fin(1)
          /\ (entry_threshold = Rat(1, 5) /\ Received(20, 80)) => call.val = Fin(-1)
          /\ (DGt(entry_threshold, Zero) /\ Received(50, 50)) => call.val = Fin(0)
    /\ call.op = "get_leader_imbalance" =>
          /\ Received(80, 20) => call.val = Rat(3, 5)
          /\ Received(20, 80) => call.val = Rat(-3, 5)
          /\ Received(50, 50) => call.val = Zero

\* Buy from the 80/20 leader while the follower holds an order
C13_Witness ==
    /\ call.op = "check_signals"
    /\ entry_threshold = Rat(1, 5)
    /\ Received(80, 20)
    /\ call.val = Fin(1)
    /\ Len(bids["follower"]) + Len(asks["follower"]) > 0

(***************************************************************************)
(* C14: mutual exclusion per book: at most one thread is inside the body   *)
(* of add_order, get_imbalance, clear, get_bid_count or get_ask_count of   *)
(* the same OrderBook, a thread inside a body holds the mutex of that book *)
(* from the first statement of the body to its return, and bids and asks   *)
(* of a book change only in a step of the thread that holds its mutex      *)
(***************************************************************************)
InBody(t) == pc[t] \notin {"idle", "lock", "compare"}

C14_MutualExclusion ==
    /\ [](\A t \in Threads, u \in Threads :
            (t # u /\ InBody(t) /\ InBody(u)) => frame[t].book # frame[u].book)
    /\ [](\A t \in Threads : InBody(t) => mtx[frame[t].book] = t)
    /\ [][\A b \in Books :
            (bids'[b] # bids[b] \/ asks'[b] # asks[b]) =>
               \E t \in Threads :
                  /\ mtx[b] = t /\ InBody(t) /\ frame[t].book = b
                  /\ pc'[t] # pc[t]
                  /\ mtx'[b] \in {t, NoThread}]_vars

\* a thread between the two statements of clear() while the other thread
\* waits to add an order to the same book
C14_Witness ==
    \E t \in Threads, u \in Threads :
       /\ pc[t] = "clear_asks" /\ asks[frame[t].book] # <<>>
       /\ pc[u] = "lock" /\ frame[u].op = "add_order"
       /\ frame[u].book = frame[t].book

(***************************************************************************)
(* C15: in every step each of bids and asks of a book stays unchanged, is  *)
(* extended by exactly one order at its end, or becomes empty together     *)
(* with the other sequence; no step removes a single order, reorders a     *)
(* sequence or changes an order already stored                             *)
(***************************************************************************)
Extended(v, w) == Len(w) = Len(v) + 1 /\ SubSeq(w, 1, Len(v)) = v

C15_AppendOrClear ==
    [][\A b \in Books :
          /\ \/ bids'[b] = bids[b]
             \/ Extended(bids[b], bids'[b])
             \/ bids'[b] = <<>> /\ asks'[b] = <<>>
          /\ \/ asks'[b] = asks[b]
             \/ Extended(asks[b], asks'[b])
             \/ asks'[b] = <<>> /\ bids'[b] = <<>>]_vars

\* a second, different order has been added behind the first bid of a book
\* that also holds an ask
C15_Witness ==
    /\ call.op = "add_order"
    /\ Len(bids[call.book]) = 2
    /\ bids[call.book][1] # bids[call.book][2]
    /\ Len(asks[call.book]) = 1

(***************************************************************************)
(* C16: add_order never rejects an input: for every price and quantity,    *)
(* zero and negative values included, the call can be made, appends        *)
(* exactly one order with that price and quantity to bids when isBid is    *)
(* true and to asks otherwise, and leaves the other sequence unchanged     *)
(***************************************************************************)
C16_NeverRejects ==
    /\ [](TotalOrders < MaxOrders =>
            \A p \in AnyPrices, q \in AnyQuantities, s \in BOOLEAN :
               ENABLED add_order("book", p, q, s))
    /\ [][call'.op = "add_order" =>
            \A p \in AnyPrices, q \in AnyQuantities, s \in BOOLEAN :
               add_order("book", p, q, s) => Appended("book", p, q, s)]_vars

\* a bid of price 0 and negative quantity stored behind an ask of negative
\* price and quantity 0
C16_Witness ==
    /\ call.op = "add_order"
    /\ asks["book"] = <<Order(Fin(-1), Fin(0))>>
    /\ bids["book"] = <<Order(Fin(0), Fin(-20))>>

(***************************************************************************)
(* C17: signals depend only on the leader: two PairStrategy instances with *)
(* the same threshold that received the same leader events, and follower   *)
(* and unknown-symbol events of their own, return the same value from      *)
(* check_signals() and from get_leader_imbalance() at every point          *)
(***************************************************************************)
C17_LeaderOnly ==
    call.op \in {"check_signals", "get_leader_imbalance"} =>
        call.val.first = call.val.second

\* both instances signal Buy or Sell while their follower books differ
C17_Witness ==
    /\ call.op = "check_signals"
    /\ call.val.first # Fin(0)
    /\ call.val.second = call.val.first
    /\ Len(bids["follower"]) + Len(asks["follower"])
         # Len(bids["follower2"]) + Len(asks["follower2"])

(***************************************************************************)
(* C18: a check_signals() that runs while other threads call               *)
(* on_market_data returns the signal that the threshold gives for the      *)
(* leader book as it stood at one instant between the invocation and the   *)
(* return of the call, the instant at which its get_imbalance() returned:  *)
(* the bid volume and the ask volume it compares are those of that one     *)
(* book, never of two different ones                                       *)
(***************************************************************************)
C18_OneInstant ==
    /\ \A t \in Threads :
          (pc[t] = "idle" /\ frame[t].outer = "check_signals") =>
             frame[t].val = frame[t].spec_val
    /\ \A t \in Threads :
          (pc[t] = "compare" /\ frame[t].outer = "check_signals") =>
             frame[t].val = frame[t].spec_val
    /\ \A t \in Threads :
          (pc[t] \in {"total_vol", "ret_get_imbalance"}
             /\ frame[t].outer = "check_signals") =>
             /\ frame[t].total_bid_vol = Accumulate(Zero, lin["leader"].bids)
             /\ frame[t].total_ask_vol = Accumulate(Zero, lin["leader"].asks)

\* a check_signals() about to return Buy from a leader book that held a bid
\* only, while the other thread has since completed an ask on the leader
C18_Witness ==
    \E t \in Threads :
       /\ pc[t] = "compare" /\ frame[t].outer = "check_signals"
       /\ Signal(frame[t].val, entry_threshold) = 1
       /\ Len(lin["leader"].bids) = 1 /\ Len(lin["leader"].asks) = 1

====
